---- MODULE Spec2Model ----
(***************************************************************************)
(* A model of the upload-and-analyse application: the column-name          *)
(* normaliser (ai_service.clean_column_names), the table store gateway     *)
(* (database.py), the insight requestor (ai_service.py) and the page       *)
(* controller's temporary-file handling (main.py, report_generator.py).    *)
(*                                                                         *)
(* A Python str is modelled as a sequence of characters; a character is a  *)
(* one-character string, and a non-ASCII code point is written "U+XXXX".   *)
(***************************************************************************)
EXTENDS Integers, Sequences, FiniteSets, TLC

VARIABLES
    columns,        \* clean_column_names: the argument `columns`
    cleaned,        \* clean_column_names: the local list `cleaned`
    npc,            \* clean_column_names: "loop" while iterating, "done" after return
    tables,         \* the relational store: committed contents of each table
    leaked,         \* connections obtained by a gateway call and never closed
    last,           \* the latest gateway call: arguments, failing step, outcome
    external_calls, \* calls made to client.chat.completions.create
    ai_last,        \* the latest insight request: kind, payload, outcome
    ppc,            \* upload_and_analyze_page: the statement about to run
    frame,          \* upload_and_analyze_page: the checkboxes and the locals
                    \* tmp_path, chart_path, ppt_filename
    fs,             \* the temporary files present on disk
    orphans,        \* upload copies left on disk by earlier interactions
    hist,           \* this interaction: files it created, paths that reached
                    \* os.remove in cleanup_temp_files, deletion errors logged
    ct_args,        \* create_table: the arguments `columns` and `dtypes`
    column_definitions, \* create_table: the local list of that name
    ct_query,       \* create_table: the columns of the CREATE TABLE statement
    ct_pc           \* create_table: "loop", then "True" or "False" as returned

normVars == <<columns, cleaned, npc>>

dbVars == <<tables, leaked, last>>

aiVars == <<external_calls, ai_last>>

pageVars == <<ppc, frame, fs, orphans, hist>>

schemaVars == <<ct_args, column_definitions, ct_query, ct_pc>>

vars ==
    <<columns, cleaned, npc, tables, leaked, last, external_calls, ai_last,
      ppc, frame, fs, orphans, hist,
      ct_args, column_definitions, ct_query, ct_pc>>

----------------------------------------------------------------------------
(* Bounds of the model.                                                    *)

\* longest input list of column labels
MaxCols == 3

\* longest generated label over GenAlphabet
MaxLabelLen == 1

\* most rows of an uploaded dataset
MaxRows == 1

\* most records appended to analysis_archive
MaxArchive == 2

\* most connections left open before the model stops calling the gateway
MaxLeaked == 1

\* longest payload handed to the insight requestor
MaxPayloadLen == 11

\* most calls to the text-generation service
MaxCalls == 3

\* most upload copies left behind before the model stops uploading
MaxOrphans == 2

\* most data columns handed to create_table
MaxSchemaCols == 2

----------------------------------------------------------------------------
(* The state of a component that is not running.                           *)

NormIdle ==
    /\ columns = <<>>
    /\ cleaned = <<>>
    /\ npc = "done"

NoRequest == [kind |-> "none", payload |-> "none", result |-> "none", called |-> FALSE]

AiStart ==
    /\ external_calls = 0
    /\ ai_last = NoRequest

None == "None"

\* main.py lines 73-75
NoLocals ==
    [xlsx |-> FALSE, save_archive |-> FALSE, generate_visuals |-> FALSE,
     tmp_path |-> None, chart_path |-> None, ppt_filename |-> None]

NoHistory == [created |-> {}, passed |-> {}, logged |-> {}]

PageStart ==
    /\ ppc = "idle"
    /\ frame = NoLocals
    /\ fs = {}
    /\ orphans = 0
    /\ hist = NoHistory

SchemaIdle ==
    /\ ct_args = [columns |-> <<>>, dtypes |-> <<>>]
    /\ column_definitions = <<>>
    /\ ct_query = <<>>
    /\ ct_pc = "idle"

----------------------------------------------------------------------------
(* Characters and the str methods the code uses.                           *)

UpperCase ==
    <<"A","B","C","D","E","F","G","H","I","J","K","L","M",
      "N","O","P","Q","R","S","T","U","V","W","X","Y","Z">>

LowerCase ==
    <<"a","b","c","d","e","f","g","h","i","j","k","l","m",
      "n","o","p","q","r","s","t","u","v","w","x","y","z">>

DigitChars == <<"0","1","2","3","4","5","6","7","8","9">>

Range(s) == { s[i] : i \in 1..Len(s) }

AsciiUpper == Range(UpperCase)
AsciiLower == Range(LowerCase)
AsciiDigit == Range(DigitChars)

\* Code points outside ASCII for which str.isalnum() is True: a Hangul
\* syllable (caseless), and a cased Latin letter with its lowercase form.
HangulGa == "U+AC00"
UpperEAcute == "U+00C9"
LowerEAcute == "U+00E9"
NonAsciiAlnum == {HangulGa, UpperEAcute, LowerEAcute}

\* str.isspace() for one character
IsSpace(c) == c \in {" ", "\t", "\n"}

AlnumChars == AsciiUpper \cup AsciiLower \cup AsciiDigit \cup NonAsciiAlnum

\* str.isalnum() for one character
IsAlnum(c) == c \in AlnumChars

\* str.lower() for one character
LowerChar(c) ==
    IF c \in AsciiUpper
    THEN LowerCase[CHOOSE i \in 1..26 : UpperCase[i] = c]
    ELSE IF c = UpperEAcute THEN LowerEAcute ELSE c

\* str.lower()
Lower(s) == [i \in 1..Len(s) |-> LowerChar(s[i])]

RECURSIVE LStrip(_)
LStrip(s) == IF s # <<>> /\ IsSpace(Head(s)) THEN LStrip(Tail(s)) ELSE s

RECURSIVE RStrip(_)
RStrip(s) ==
    IF s # <<>> /\ IsSpace(s[Len(s)]) THEN RStrip(SubSeq(s, 1, Len(s) - 1)) ELSE s

\* str.strip()
Strip(s) == RStrip(LStrip(s))

\* str.replace(old, new) for a non-empty `old`: leftmost, non-overlapping
RECURSIVE Replace(_, _, _)
Replace(s, old, new) ==
    IF Len(s) < Len(old) THEN s
    ELSE IF SubSeq(s, 1, Len(old)) = old
         THEN new \o Replace(SubSeq(s, Len(old) + 1, Len(s)), old, new)
         ELSE <<Head(s)>> \o Replace(Tail(s), old, new)

\* KeepWordChars without the `or c == '_'`
RECURSIVE KeepAlnumChars(_)
KeepAlnumChars(s) ==
    IF s = <<>> THEN <<>>
    ELSE IF IsAlnum(Head(s))
         THEN <<Head(s)>> \o KeepAlnumChars(Tail(s))
         ELSE KeepAlnumChars(Tail(s))

\* ''.join(c for c in s if keep(c))
RECURSIVE KeepWordChars(_)
KeepWordChars(s) ==
    IF s = <<>> THEN <<>>
    ELSE IF IsAlnum(Head(s)) \/ Head(s) = "_"
         THEN <<Head(s)>> \o KeepWordChars(Tail(s))
         ELSE KeepWordChars(Tail(s))

\* str(n) for a natural number n
RECURSIVE IntToStr(_)
IntToStr(n) ==
    IF n < 10 THEN <<DigitChars[n + 1]>>
    ELSE IntToStr(n \div 10) \o <<DigitChars[(n % 10) + 1]>>

\* every list over S of at most n entries
RECURSIVE ListsUpTo(_, _)
ListsUpTo(S, n) ==
    IF n = 0 THEN {<<>>}
    ELSE LET shorter == ListsUpTo(S, n - 1)
         IN  shorter \cup { Append(l, x) : l \in shorter, x \in S }

\* x in list
InList(x, list) == \E i \in 1..Len(list) : list[i] = x

----------------------------------------------------------------------------
(* ai_service.clean_column_names                                           *)

\* A label is a str ([isstr |-> TRUE, s |-> characters]) or any other value
\* (None, NaN, a number), for which only isinstance(col, str) is consulted.
StrLabel(s) == [isstr |-> TRUE, s |-> s]
NonStrLabel == [isstr |-> FALSE, s |-> <<>>]

UnnamedPrefix == <<"u","n","n","a","m","e","d",":"," ">>
ColumnPrefix == <<"c","o","l","u","m","n","_">>

\* lines 117-118: the placeholder for a label that is not a str
Placeholder(col, done) ==
    IF ~col.isstr THEN ColumnPrefix \o IntToStr(Len(done)) ELSE col.s

\* BaseName with the illegal characters dropped before the separators are
\* replaced (steps 4 and 5 swapped, and the prefix rule after them)
BaseNameStripFirst(col, done) ==
    LET s0 == KeepWordChars(Strip(Lower(Placeholder(col, done))))
        s1 == Replace(s0, UnnamedPrefix, ColumnPrefix)
    IN  Replace(Replace(Replace(s1, <<" ">>, <<"_">>), <<":">>, <<"_">>),
                <<"-">>, <<"_">>)

\* lines 119-122: lowercase/trim, "unnamed: " -> "column_", separators to
\* underscore, then drop every character that is neither alphanumeric nor "_"
BaseName(col, done) ==
    LET s0 == Strip(Lower(Placeholder(col, done)))
        s1 == Replace(s0, UnnamedPrefix, ColumnPrefix)
        s2 == Replace(Replace(Replace(s1, <<" ">>, <<"_">>), <<":">>, <<"_">>),
                      <<"-">>, <<"_">>)
    IN  KeepWordChars(s2)

\* FirstFree with an `if` in place of the `while`: one suffix attempt only
FirstFreeOnce(base_name, clean_name, counter, done) ==
    IF ~InList(clean_name, done) THEN clean_name
    ELSE base_name \o <<"_">> \o IntToStr(counter)

\* lines 123-127: the while loop looking for the first free suffix
RECURSIVE FirstFree(_, _, _, _)
FirstFree(base_name, clean_name, counter, done) ==
    IF ~InList(clean_name, done) THEN clean_name
    ELSE FirstFree(base_name, base_name \o <<"_">> \o IntToStr(counter),
                   counter + 1, done)

\* one iteration of the for loop, lines 116-128
CleanOne(col, done) ==
    LET base_name == BaseName(col, done)
    IN  Append(done, FirstFree(base_name, base_name, 1, done))

----------------------------------------------------------------------------
(* database.py: the table store gateway.                                   *)
(*                                                                         *)
(* A gateway call is synchronous and the application is single-threaded,   *)
(* so each call is one action. The step at which the driver fails is an    *)
(* input of the action. psycopg2 opens a transaction at the first          *)
(* statement; DDL is transactional in PostgreSQL; closing a connection     *)
(* without commit discards the transaction.                                *)

ArchiveName == <<"a","n","a","l","y","s","i","s","_","a","r","c","h","i","v","e">>

\* uploaded_file.name of the uploads considered
FileHangul == <<HangulGa,"-","T",".","c","s","v">>
FileArchive ==
    <<"A","n","a","l","y","s","i","s"," ","A","r","c","h","i","v","e",".","x","l","s","x">>

FileNames == {FileHangul, FileArchive}

\* os.path.splitext(name)[0]: the name up to its last dot, unless that dot
\* only follows leading dots
SplitExtRoot(name) ==
    LET dots == { i \in 1..Len(name) : name[i] = "." }
        lastDot == CHOOSE i \in dots : \A j \in dots : j <= i
    IN  IF dots = {} \/ (\A j \in 1..lastDot : name[j] = ".")
        THEN name
        ELSE SubSeq(name, 1, lastDot - 1)

\* main.py line 100: the table name derived from the uploaded file's name
TableNameOf(file) == Lower(Replace(SplitExtRoot(file), <<" ">>, <<"_">>))

\* SanitizeTableName without the .lower()
SanitizeNoLower(table_name) == KeepWordChars(table_name)

\* database.py line 56
SanitizeTableName(table_name) == Lower(KeepWordChars(table_name))

\* string.ascii_letters + string.digits + '_'
AsciiWordChars == AsciiUpper \cup AsciiLower \cup AsciiDigit \cup {"_"}

\* str.isalnum() for a whole string
IsAlnumStr(s) == s # <<>> /\ \A i \in 1..Len(s) : IsAlnum(s[i])

\* database.py line 102: the condition under which fetch does NOT raise
FetchNameAccepted(table_name) ==
    IsAlnumStr(table_name) \/ Range(table_name) \subseteq AsciiWordChars

\* PostgreSQL folds an unquoted identifier to lowercase
FoldIdentifier(name) == Lower(name)

\* table_name arguments with which the gateway is called
SaveNames == { TableNameOf(f) : f \in FileNames }

FetchNames ==
    { SanitizeTableName(n) : n \in SaveNames } \cup
    { <<"S","a","l","e","s">>, <<"t",";">>, <<HangulGa>> }

TableKeys == { SanitizeTableName(n) : n \in SaveNames } \cup {ArchiveName}

NoTable == [exists |-> FALSE, schema |-> "none", rows |-> <<>>]

\* df values: one cell per row, a value or a missing value (NaN)
NaN == "NaN"
Cells == {"x", NaN}
Datasets == ListsUpTo(Cells, MaxRows)

\* line 53: df.fillna('')
FillNa(df) == [i \in 1..Len(df) |-> IF df[i] = NaN THEN "" ELSE df[i]]

\* the seven-field tuples handed to save_analysis_result
ArchiveRecords == {"r1", "r2"}

\* df is the dataset of the latest successful save_to_postgres, old the
\* number of rows its table held before (-1: no such table)
NoCall ==
    [op |-> "none", failAt |-> "none", result |-> "none", closed |-> TRUE,
     embedded |-> {}, df |-> <<>>, old |-> -1]

DbStart ==
    /\ tables = [k \in TableKeys |-> NoTable]
    /\ leaked = 0
    /\ last = NoCall

\* rows a table held before a call, -1 when it did not exist
OldCount(tbl) == IF tbl.exists THEN Len(tbl.rows) ELSE -1

\* create_table with CREATE TABLE IF NOT EXISTS and no DROP: old rows stay
CreateTableKeepOld(store, name) ==
    IF store[name].exists THEN store
    ELSE [store EXCEPT ![name] = [exists |-> TRUE, schema |-> "data", rows |-> <<>>]]

\* lines 34-42: DROP TABLE IF EXISTS name; CREATE TABLE name (...)
CreateTable(store, name) ==
    [store EXCEPT ![name] = [exists |-> TRUE, schema |-> "data", rows |-> <<>>]]

\* lines 73-78: execute_values inserts one row per row of df
InsertRows(store, name, df) ==
    [store EXCEPT ![name].rows = @ \o FillNa(df)]

SaveFailPoints ==
    {"none", "connect", "cursor", "create", "insert", "commit",
     "insert_rollback", "commit_rollback"}

\* lines 84-88: the except clause returns False unless its ROLLBACK raises
SaveResult(failAt) ==
    CASE failAt = "none" -> "True"
      [] failAt \in {"insert_rollback", "commit_rollback"} -> "raised"
      [] OTHER -> "False"

\* the store as committed by save_to_postgres: only line 80 commits
SaveCommitted(store, name, df, failAt) ==
    IF failAt = "none" THEN InsertRows(CreateTable(store, name), name, df)
    ELSE store

\* save_to_postgres, lines 48-93
SaveToPostgres(df, table_name, failAt) ==
    \E name \in {SanitizeTableName(table_name)} :
        /\ name \in TableKeys
        /\ tables' = SaveCommitted(tables, name, df, failAt)
        /\ leaked' = leaked
        /\ last' = [op |-> "save", failAt |-> failAt, result |-> SaveResult(failAt),
                    closed |-> TRUE,
                    embedded |-> IF failAt \in {"connect", "cursor"} THEN {} ELSE {name},
                    df |-> IF failAt = "none" THEN df ELSE <<>>,
                    old |-> OldCount(tables[name])]

ReadFailPoints == {"none", "connect", "read"}

\* fetch_from_postgres, lines 95-111
FetchFromPostgres(table_name, failAt) ==
    \E accepted \in {FetchNameAccepted(table_name)}, key \in {FoldIdentifier(table_name)} :
    LET built == failAt # "connect" /\ accepted
        found == built /\ failAt = "none" /\ key \in TableKeys /\ tables[key].exists
    IN  /\ last' = [op |-> "fetch", failAt |-> failAt,
                    result |-> IF found /\ tables[key].rows # <<>> THEN "rows" ELSE "empty",
                    closed |-> TRUE,
                    embedded |-> IF built THEN {table_name} ELSE {},
                    df |-> <<>>, old |-> -1]
        /\ UNCHANGED <<tables, leaked>>

\* list_tables, lines 113-126
ListTables(failAt) ==
    /\ last' = [op |-> "list_tables", failAt |-> failAt,
                result |-> IF failAt = "none" /\ (\E k \in TableKeys : tables[k].exists)
                           THEN "rows" ELSE "empty",
                closed |-> TRUE, embedded |-> {}, df |-> <<>>, old |-> -1]
    /\ UNCHANGED <<tables, leaked>>

ArchiveFailPoints == {"none", "connect", "cursor", "execute", "commit"}

\* lines 152-157: with conn.cursor() raising, `cursor` is unbound in the
\* finally clause: UnboundLocalError leaves it before conn.close()
ArchiveCallRaises(failAt) == failAt = "cursor"

\* create_analysis_archive_table, lines 130-157: the store it commits
ArchiveTableCommitted(store, failAt) ==
    IF failAt = "none" /\ ~store[ArchiveName].exists
    THEN [store EXCEPT ![ArchiveName] =
              [exists |-> TRUE, schema |-> "archive", rows |-> <<>>]]
    ELSE store

\* lines 168-172: the INSERT names the archive's columns and so needs the
\* table to exist with them
ArchiveInsertable(store) ==
    store[ArchiveName].exists /\ store[ArchiveName].schema = "archive"

\* save_analysis_result, lines 159-182; failCreate is the failing step of the
\* create_analysis_archive_table call of line 162, failAt of the rest (which
\* does not run when that call raised)
SaveAnalysisResult(record, failCreate, failAt) ==
    LET created == ArchiveTableCommitted(tables, failCreate)
        raisedEarly == ArchiveCallRaises(failCreate)
        raised == raisedEarly \/ ArchiveCallRaises(failAt)
        inserted == /\ ~raisedEarly
                    /\ failAt = "none"
                    /\ ArchiveInsertable(created)
    IN  /\ ~raisedEarly \/ failAt = "none"
        /\ ArchiveInsertable(tables) => Len(tables[ArchiveName].rows) < MaxArchive
        /\ tables' = IF inserted
                     THEN [created EXCEPT ![ArchiveName].rows = Append(@, record)]
                     ELSE created
        /\ leaked' = IF raised THEN leaked + 1 ELSE leaked
        /\ last' = [op |-> "save_analysis",
                    failAt |-> IF failCreate # "none" THEN "create_" \o failCreate
                               ELSE failAt,
                    result |-> IF raised THEN "raised"
                               ELSE IF inserted THEN "True" ELSE "False",
                    closed |-> ~raised, embedded |-> {}, df |-> <<>>, old |-> -1]

\* list_analysis_results, lines 184-197
ListAnalysisResults(failAt) ==
    /\ last' = [op |-> "list_analysis", failAt |-> failAt,
                result |-> IF /\ failAt = "none"
                              /\ ArchiveInsertable(tables)
                              /\ tables[ArchiveName].rows # <<>>
                           THEN "rows" ELSE "empty",
                closed |-> TRUE, embedded |-> {}, df |-> <<>>, old |-> -1]
    /\ UNCHANGED <<tables, leaked>>

DbInit ==
    /\ DbStart
    /\ NormIdle
    /\ AiStart
    /\ PageStart
    /\ SchemaIdle

\* upload_and_analyze_page line 101 -> DataManager.save_dataframe
SaveDataframe ==
    /\ leaked < MaxLeaked
    /\ \E table_name \in SaveNames, df \in Datasets, failAt \in SaveFailPoints :
           SaveToPostgres(df, table_name, failAt)
    /\ UNCHANGED <<normVars, aiVars, pageVars, schemaVars>>

\* dashboard_page line 165 -> DataManager.fetch_dataframe
FetchDataframe ==
    /\ leaked < MaxLeaked
    /\ \E table_name \in FetchNames, failAt \in ReadFailPoints :
           FetchFromPostgres(table_name, failAt)
    /\ UNCHANGED <<normVars, aiVars, pageVars, schemaVars>>

\* dashboard_page line 158 -> DataManager.list_tables
ListTablesCall ==
    /\ leaked < MaxLeaked
    /\ \E failAt \in ReadFailPoints : ListTables(failAt)
    /\ UNCHANGED <<normVars, aiVars, pageVars, schemaVars>>

\* upload_and_analyze_page line 123 -> DataManager.save_analysis
SaveAnalysis ==
    /\ leaked < MaxLeaked
    /\ \E record \in ArchiveRecords, failCreate \in ArchiveFailPoints,
          failAt \in ArchiveFailPoints :
           SaveAnalysisResult(record, failCreate, failAt)
    /\ UNCHANGED <<normVars, aiVars, pageVars, schemaVars>>

\* analysis_archive_page line 177 -> DataManager.list_analysis
ListAnalysis ==
    /\ leaked < MaxLeaked
    /\ \E failAt \in ReadFailPoints : ListAnalysisResults(failAt)
    /\ UNCHANGED <<normVars, aiVars, pageVars, schemaVars>>

DbNext ==
    \/ SaveDataframe
    \/ FetchDataframe
    \/ ListTablesCall
    \/ SaveAnalysis
    \/ ListAnalysis

SpecDb == DbInit /\ [][DbNext]_vars

----------------------------------------------------------------------------
(* ai_service.py: the insight requestor.                                   *)

\* line 93: the shortest stripped payload generate_management_insights sends
MinSampleLen == 10

RECURSIVE Repeat(_, _)
Repeat(c, n) == IF n = 0 THEN <<>> ELSE <<c>> \o Repeat(c, n - 1)

\* A payload is a str, or another value of which only its truth value and
\* its not being a str matter (None is false, a non-zero number is true).
StrPayload(s) == [isstr |-> TRUE, s |-> s, truthy |-> s # <<>>]
NonePayload == [isstr |-> FALSE, s |-> <<>>, truthy |-> FALSE]
NumberPayload == [isstr |-> FALSE, s |-> <<>>, truthy |-> TRUE]

Payloads ==
    { StrPayload(Repeat("a", n)) : n \in 0..MaxPayloadLen } \cup
    { StrPayload(<<" ">> \o Repeat("a", n) \o <<" ", "\n">>) : n \in 0..MaxPayloadLen } \cup
    { NonePayload, NumberPayload }

\* lines 27-37 and the like: the call to the service inside try/except
CallService(apiFails) == IF apiFails THEN "api_error" ELSE "text"

\* analyze_data_structure, lines 10-11: `if not df_info`
StructureRejects(payload) == ~payload.truthy

\* generate_analysis_queries (lines 39-66) and generate_postgres_code
\* (lines 68-89) send every payload
QueriesRejects(payload) == FALSE

\* generate_management_insights, line 93
InsightsRejects(payload) ==
    ~payload.isstr \/ Len(Strip(payload.s)) < MinSampleLen

RequestKinds == {"analyze_data_structure", "generate_analysis_queries",
                 "generate_postgres_code", "generate_management_insights"}

Rejects(kind, payload) ==
    CASE kind = "analyze_data_structure" -> StructureRejects(payload)
      [] kind = "generate_management_insights" -> InsightsRejects(payload)
      [] OTHER -> QueriesRejects(payload)

\* one request of the given kind
Request(kind, payload, apiFails) ==
    /\ \E rejected \in {Rejects(kind, payload)} :
        /\ external_calls' = IF rejected THEN external_calls ELSE external_calls + 1
        /\ ai_last' = [kind |-> kind, payload |-> payload,
                       result |-> IF rejected THEN "error" ELSE CallService(apiFails),
                       called |-> ~rejected]
    /\ UNCHANGED <<normVars, dbVars, pageVars, schemaVars>>

AnalyzeDataStructure ==
    /\ external_calls < MaxCalls
    /\ \E payload \in Payloads, apiFails \in BOOLEAN :
           Request("analyze_data_structure", payload, apiFails)

GenerateAnalysisQueries ==
    /\ external_calls < MaxCalls
    /\ \E payload \in Payloads, apiFails \in BOOLEAN :
           Request("generate_analysis_queries", payload, apiFails)

GeneratePostgresCode ==
    /\ external_calls < MaxCalls
    /\ \E payload \in Payloads, apiFails \in BOOLEAN :
           Request("generate_postgres_code", payload, apiFails)

GenerateManagementInsights ==
    /\ external_calls < MaxCalls
    /\ \E payload \in Payloads, apiFails \in BOOLEAN :
           Request("generate_management_insights", payload, apiFails)

AiInit ==
    /\ AiStart
    /\ NormIdle
    /\ DbStart
    /\ PageStart
    /\ SchemaIdle

AiNext ==
    \/ AnalyzeDataStructure
    \/ GenerateAnalysisQueries
    \/ GeneratePostgresCode
    \/ GenerateManagementInsights

SpecAi == AiInit /\ [][AiNext]_vars

----------------------------------------------------------------------------
(* main.py: upload_and_analyze_page and its temporary files.               *)
(*                                                                         *)
(* One interaction runs the statements of lines 72-154 in order; each step *)
(* takes its outcome (normal, early return, exception) as an input. An     *)
(* exception inside the try goes to the except clause of line 150, and     *)
(* every path ends in the finally clause of line 153.                      *)

\* tmp.name of line 79; tempfile gives every interaction a fresh name
UploadCopy == "upload_copy"

\* report_generator.py line 18
ChartFile == "chart.png"

\* report_generator.py line 26, output_filename
DeckFile == "report.pptx"

\* lines 72-75: a file was uploaded; the locals start as None
BeginInteraction ==
    /\ ppc = "idle"
    /\ orphans < MaxOrphans
    /\ \E xlsx \in BOOLEAN, save_archive \in BOOLEAN, generate_visuals \in BOOLEAN :
           frame' = [NoLocals EXCEPT !.xlsx = xlsx, !.save_archive = save_archive,
                                     !.generate_visuals = generate_visuals]
    /\ hist' = NoHistory
    /\ ppc' = "copy"
    /\ UNCHANGED <<fs, orphans>>
    /\ UNCHANGED <<normVars, dbVars, aiVars, schemaVars>>

\* lines 77-79: tmp_path is assigned only after tmp.write returned
CopyAssigns(outcome) ==
    IF outcome = "ok" THEN UploadCopy ELSE None

\* lines 77-79: NamedTemporaryFile(delete=False) creates the copy, tmp.write
\* fills it
CopyUpload ==
    /\ ppc = "copy"
    /\ \E outcome \in {"ok", "create_fails", "write_fails"} :
        /\ fs' = IF outcome = "create_fails" THEN fs ELSE fs \cup {UploadCopy}
        /\ hist' = IF outcome = "create_fails" THEN hist
                   ELSE [hist EXCEPT !.created = @ \cup {UploadCopy}]
        /\ frame' = [frame EXCEPT !.tmp_path = CopyAssigns(outcome)]
        /\ ppc' = IF outcome = "ok" THEN "read" ELSE "except"
    /\ UNCHANGED orphans
    /\ UNCHANGED <<normVars, dbVars, aiVars, schemaVars>>

\* lines 82-97: parse the copy; a workbook without sheets returns early
ReadFile ==
    /\ ppc = "read"
    /\ \E outcome \in {"ok", "raises", "no_sheets"} :
        /\ outcome = "no_sheets" => frame.xlsx
        /\ ppc' = CASE outcome = "ok" -> "store"
                    [] outcome = "raises" -> "except"
                    [] OTHER -> "finally"
    /\ UNCHANGED <<frame, fs, orphans, hist>>
    /\ UNCHANGED <<normVars, dbVars, aiVars, schemaVars>>

\* lines 100-105: store the dataset; False returns early
StoreDataset ==
    /\ ppc = "store"
    /\ \E result \in {"True", "False", "raised"} :
        ppc' = CASE result = "True" -> "insights"
                 [] result = "False" -> "finally"
                 [] OTHER -> "except"
    /\ UNCHANGED <<frame, fs, orphans, hist>>
    /\ UNCHANGED <<normVars, dbVars, aiVars, schemaVars>>

\* lines 108-124: the three insight requests return strings; the archive
\* append of line 123 can raise
RequestInsights ==
    /\ ppc = "insights"
    /\ \E archiveRaises \in BOOLEAN :
        /\ archiveRaises => frame.save_archive
        /\ ppc' = IF archiveRaises THEN "except"
                  ELSE IF frame.generate_visuals THEN "chart" ELSE "finally"
    /\ UNCHANGED <<frame, fs, orphans, hist>>
    /\ UNCHANGED <<normVars, dbVars, aiVars, schemaVars>>

\* lines 129-137 and generate_sample_chart: the series of line 134 can raise;
\* generate_sample_chart returns "chart.png" or, catching its own exception,
\* None, with or without a file written by plt.savefig
DrawChart ==
    /\ ppc = "chart"
    /\ \E outcome \in {"ok", "series_raises", "fails_no_file", "fails_file_written"} :
        /\ fs' = IF outcome \in {"ok", "fails_file_written"}
                 THEN fs \cup {ChartFile} ELSE fs
        /\ hist' = IF outcome \in {"ok", "fails_file_written"}
                   THEN [hist EXCEPT !.created = @ \cup {ChartFile}] ELSE hist
        /\ frame' = [frame EXCEPT !.chart_path =
                        IF outcome = "ok" THEN ChartFile ELSE None]
        /\ ppc' = CASE outcome = "ok" -> "deck"
                    [] outcome = "series_raises" -> "except"
                    [] OTHER -> "finally"
    /\ UNCHANGED orphans
    /\ UNCHANGED <<normVars, dbVars, aiVars, schemaVars>>

\* lines 138-140 and create_ppt_report: the deck is saved by prs.save and its
\* name returned, or an exception leaves create_ppt_report
BuildDeck ==
    /\ ppc = "deck"
    /\ \E outcome \in {"ok", "raises_no_file", "raises_file_written"} :
        /\ fs' = IF outcome \in {"ok", "raises_file_written"}
                 THEN fs \cup {DeckFile} ELSE fs
        /\ hist' = IF outcome \in {"ok", "raises_file_written"}
                   THEN [hist EXCEPT !.created = @ \cup {DeckFile}] ELSE hist
        /\ frame' = [frame EXCEPT !.ppt_filename =
                        IF outcome = "ok" THEN DeckFile ELSE None]
        /\ ppc' = IF outcome = "ok" THEN "download" ELSE "except"
    /\ UNCHANGED orphans
    /\ UNCHANGED <<normVars, dbVars, aiVars, schemaVars>>

\* lines 141-145: offer the deck for download
OfferDownload ==
    /\ ppc = "download"
    /\ \E raises \in BOOLEAN : ppc' = IF raises THEN "except" ELSE "finally"
    /\ UNCHANGED <<frame, fs, orphans, hist>>
    /\ UNCHANGED <<normVars, dbVars, aiVars, schemaVars>>

\* lines 150-152
HandleException ==
    /\ ppc = "except"
    /\ ppc' = "finally"
    /\ UNCHANGED <<frame, fs, orphans, hist>>
    /\ UNCHANGED <<normVars, dbVars, aiVars, schemaVars>>

\* line 58: the arguments for which os.remove is attempted
RemovalAttempted(paths, disk) == { path \in paths : path # None /\ path \in disk }

\* cleanup_temp_files, lines 56-62: os.remove fails for the files of `stuck`,
\* and each failure is logged
CleanupTempFiles(paths, stuck) ==
    LET attempted == RemovalAttempted(paths, fs)
    IN  /\ fs' = fs \ (attempted \ stuck)
        /\ hist' = [hist EXCEPT !.passed = attempted, !.logged = attempted \cap stuck]

\* lines 153-154
Finally ==
    /\ ppc = "finally"
    /\ \E stuck \in SUBSET {UploadCopy, ChartFile, DeckFile} :
        /\ stuck \subseteq fs
        /\ CleanupTempFiles({frame.tmp_path, frame.chart_path, frame.ppt_filename}, stuck)
    /\ ppc' = "done"
    /\ UNCHANGED <<frame, orphans>>
    /\ UNCHANGED <<normVars, dbVars, aiVars, schemaVars>>

\* the page has rendered; an upload copy still on disk keeps its own name
\* and is never looked at again
EndInteraction ==
    /\ ppc = "done"
    /\ ppc' = "idle"
    /\ orphans' = IF UploadCopy \in fs THEN orphans + 1 ELSE orphans
    /\ fs' = fs \ {UploadCopy}
    /\ frame' = NoLocals
    /\ hist' = NoHistory
    /\ UNCHANGED <<normVars, dbVars, aiVars, schemaVars>>

PageInit ==
    /\ PageStart
    /\ NormIdle
    /\ DbStart
    /\ AiStart
    /\ SchemaIdle

PageNext ==
    \/ BeginInteraction
    \/ CopyUpload
    \/ ReadFile
    \/ StoreDataset
    \/ RequestInsights
    \/ DrawChart
    \/ BuildDeck
    \/ OfferDownload
    \/ HandleException
    \/ Finally
    \/ EndInteraction

SpecPage == PageInit /\ [][PageNext]_vars

----------------------------------------------------------------------------
(* database.py: create_table, the schema inferencer.                       *)
(*                                                                         *)
(* A column definition f"{col} {col_type}" is modelled as the record of    *)
(* its two parts.                                                          *)

\* str(df[col].dtype) of line 64: the tags pandas gives, two of them
\* recognised-looking but not among the three the code names
DtypeTags ==
    {"int64", "float64", "datetime64[ns]", "object", "bool", "int32",
     "datetime64[ns, UTC]"}

\* column identifiers handed to create_table
SchemaColumnNames == {"a", "b", "id"}

\* ColType with float64 left out of the list of line 26
ColTypeIntOnly(dtype) ==
    IF dtype \in {"int64"} THEN "NUMERIC"
    ELSE IF dtype = "datetime64[ns]" THEN "TIMESTAMP"
    ELSE "TEXT"

\* lines 26-31
ColType(dtype) ==
    IF dtype \in {"int64", "float64"} THEN "NUMERIC"
    ELSE IF dtype = "datetime64[ns]" THEN "TIMESTAMP"
    ELSE "TEXT"

\* line 32
ColumnDefinition(col, dtype) == [name |-> col, type |-> ColType(dtype)]

\* len(list(zip(columns, dtypes)))
ZipLen(args) ==
    IF Len(args.columns) <= Len(args.dtypes) THEN Len(args.columns)
    ELSE Len(args.dtypes)

\* lines 37-38: the two synthetic columns
SyntheticColumns ==
    << [name |-> "id", type |-> "SERIAL PRIMARY KEY"],
       [name |-> "created_at", type |-> "TIMESTAMP DEFAULT CURRENT_TIMESTAMP"] >>

\* lines 34-41: the columns of the CREATE TABLE statement, in its order
CreateTableQuery(definitions) == SyntheticColumns \o definitions

\* the (columns, dtypes) pairs save_to_postgres builds in lines 63-64
SchemaArgs ==
    { [columns |-> [i \in 1..Len(l) |-> l[i][1]], dtypes |-> [i \in 1..Len(l) |-> l[i][2]]] :
        l \in ListsUpTo(SchemaColumnNames \X DtypeTags, MaxSchemaCols) }

SchemaInit ==
    /\ ct_args \in SchemaArgs
    /\ column_definitions = <<>>
    /\ ct_query = <<>>
    /\ ct_pc = "loop"
    /\ NormIdle
    /\ DbStart
    /\ AiStart
    /\ PageStart

\* lines 25-32: one pass of `for col, dtype in zip(columns, dtypes)`
DefineColumn ==
    /\ ct_pc = "loop"
    /\ Len(column_definitions) < ZipLen(ct_args)
    /\ LET i == Len(column_definitions) + 1
       IN  column_definitions' =
               Append(column_definitions,
                      ColumnDefinition(ct_args.columns[i], ct_args.dtypes[i]))
    /\ UNCHANGED <<ct_args, ct_query, ct_pc>>
    /\ UNCHANGED <<normVars, dbVars, aiVars, pageVars>>

\* lines 34-46: build the statement and execute it; True, or False when
\* cursor.execute raises
ExecuteCreate ==
    /\ ct_pc = "loop"
    /\ Len(column_definitions) = ZipLen(ct_args)
    /\ ct_query' = CreateTableQuery(column_definitions)
    /\ \E raises \in BOOLEAN : ct_pc' = IF raises THEN "False" ELSE "True"
    /\ UNCHANGED <<ct_args, column_definitions>>
    /\ UNCHANGED <<normVars, dbVars, aiVars, pageVars>>

SchemaNext == DefineColumn \/ ExecuteCreate

SpecSchema == SchemaInit /\ [][SchemaNext]_vars

----------------------------------------------------------------------------
(* Inputs of the normaliser.                                               *)

GenAlphabet == {"a", "_", "1"}

RECURSIVE StringsUpTo(_, _)
StringsUpTo(alphabet, n) ==
    IF n = 0 THEN {<<>>}
    ELSE LET shorter == StringsUpTo(alphabet, n - 1)
         IN  shorter \cup { Append(s, c) : s \in shorter, c \in alphabet }

ExampleUnnamed == <<"U","n","n","a","m","e","d",":"," ","0">>
ExampleRevenue == <<"R","e","v","e","n","u","e"," ","(","$",")">>
ExampleRevenue2 == <<"r","e","v","e","n","u","e","_","(","$",")">>

ExtraLabels ==
    { ExampleUnnamed, ExampleRevenue, ExampleRevenue2,
      <<"a","_","1">>, <<" ","A","-"," ">>, <<"$">>, <<HangulGa>>,
      <<UpperEAcute>> }

Labels ==
    { StrLabel(s) : s \in StringsUpTo(GenAlphabet, MaxLabelLen) \cup ExtraLabels }
        \cup {NonStrLabel}

NormInit ==
    /\ columns \in ListsUpTo(Labels, MaxCols)
    /\ cleaned = <<>>
    /\ npc = "loop"
    /\ DbStart
    /\ AiStart
    /\ PageStart
    /\ SchemaIdle

\* one pass of `for col in columns`
CleanColumn ==
    /\ npc = "loop"
    /\ Len(cleaned) < Len(columns)
    /\ cleaned' = CleanOne(columns[Len(cleaned) + 1], cleaned)
    /\ UNCHANGED <<columns, npc>>
    /\ UNCHANGED <<dbVars, aiVars, pageVars, schemaVars>>

\* `return cleaned`
CleanReturn ==
    /\ npc = "loop"
    /\ Len(cleaned) = Len(columns)
    /\ npc' = "done"
    /\ UNCHANGED <<columns, cleaned>>
    /\ UNCHANGED <<dbVars, aiVars, pageVars, schemaVars>>

NormNext == CleanColumn \/ CleanReturn

SpecNorm == NormInit /\ [][NormNext]_vars

----------------------------------------------------------------------------
(* Properties of the normaliser.                                           *)

NoDuplicates(list) ==
    \A i, j \in 1..Len(list) : i # j => list[i] # list[j]

\* C1: for every input list of labels (strings, empty strings, non-strings,
\* mixed), the returned list has the length of the input and no two of its
\* entries are equal.
NormSameLengthUnique ==
    /\ NoDuplicates(cleaned)
    /\ npc = "done" => Len(cleaned) = Len(columns)

\* a returned list whose first three labels are the same str
NormCollisionResolved ==
    /\ npc = "done"
    /\ Len(columns) >= 3
    /\ columns[1].isstr
    /\ columns[1] = columns[2]
    /\ columns[2] = columns[3]
    /\ cleaned[2] = cleaned[1] \o <<"_", "1">>
    /\ cleaned[3] = cleaned[1] \o <<"_", "2">>

IdentifierChars == AsciiLower \cup AsciiDigit \cup {"_"}

\* C2: every returned identifier is non-empty and made only of a-z, 0-9 and
\* underscore.
NormIdentifiersWellFormed ==
    npc = "done" =>
        \A i \in 1..Len(cleaned) :
            /\ cleaned[i] # <<>>
            /\ Range(cleaned[i]) \subseteq IdentifierChars

ExampleColumns ==
    <<StrLabel(ExampleUnnamed), StrLabel(ExampleRevenue), StrLabel(ExampleRevenue2)>>

Column0 == <<"c","o","l","u","m","n","_","0">>
Revenue == <<"r","e","v","e","n","u","e">>

\* C3 as stated: ["Unnamed: 0", "Revenue ($)", "revenue_($)"] is returned as
\* ["column_0", "revenue", "revenue_1"].
NormExampleAsStated ==
    (npc = "done" /\ columns = ExampleColumns) =>
        cleaned = <<Column0, Revenue, Revenue \o <<"_","1">> >>

\* C3 amended: ["Unnamed: 0", "Revenue ($)", "revenue_($)"] is returned as
\* ["column_0", "revenue_", "revenue__1"]: the steps run in the stated order,
\* the space of "Revenue ($)" becomes an underscore before the illegal
\* characters are dropped, and the collision takes the first free suffix _1.
NormExampleActual ==
    (npc = "done" /\ columns = ExampleColumns) =>
        cleaned = <<Column0, Revenue \o <<"_">>, Revenue \o <<"_","_","1">> >>

\* the example call has returned
NormExampleReturned == npc = "done" /\ columns = ExampleColumns

\* a list of pairwise distinct, non-empty str identifiers over a-z, 0-9, "_"
CleanInput(list) ==
    /\ \A i \in 1..Len(list) :
        /\ list[i].isstr
        /\ list[i].s # <<>>
        /\ Range(list[i].s) \subseteq IdentifierChars
    /\ NoDuplicates(list)

\* C11: normalisation is idempotent on clean input: a list of pairwise
\* distinct, non-empty identifiers over a-z, 0-9 and underscore is returned
\* unchanged, same elements in the same order.
NormIdempotentOnClean ==
    (npc = "done" /\ CleanInput(columns)) =>
        cleaned = [i \in 1..Len(columns) |-> columns[i].s]

\* a clean list of three identifiers, one with a suffix-like tail, returned
NormCleanListReturned ==
    /\ npc = "done"
    /\ Len(columns) >= 3
    /\ CleanInput(columns)
    /\ \E i \in 1..Len(columns) : columns[i].s = <<"a", "_", "1">>
    /\ \E i \in 1..Len(columns) : columns[i].s = <<"a">>

----------------------------------------------------------------------------
(* Properties of the table store gateway.                                  *)

IsPrefix(s, u) == Len(s) <= Len(u) /\ SubSeq(u, 1, Len(s)) = s

\* C4: the analysis archive is append-only: once it holds a record, no
\* operation removes or changes a record of it or drops the table.
ArchiveAppendOnly ==
    [][(ArchiveInsertable(tables) /\ tables[ArchiveName].rows # <<>>) =>
           /\ ArchiveInsertable(tables')
           /\ IsPrefix(tables[ArchiveName].rows, tables'[ArchiveName].rows)]_vars

GatewayOps == {"save", "fetch", "list_tables", "save_analysis", "list_analysis"}

\* C5: every gateway operation that obtains a connection closes it on every
\* exit path, whichever step fails, and reports a failure as a value, not as
\* a raised exception.
GatewayClosesAndReturns ==
    /\ leaked = 0
    /\ last.op \in GatewayOps => last.closed /\ last.result # "raised"

\* C7: the table name embedded in the statement of save_to_postgres or
\* fetch_from_postgres has no uppercase letter and no character outside
\* a-z, 0-9 and underscore.
EmbeddedNameSanitized ==
    last.op \in {"save", "fetch"} =>
        \A name \in last.embedded : Range(name) \subseteq IdentifierChars

\* C8: after save_to_postgres succeeds for a table name that already existed,
\* the table holds exactly the rows of the new dataset, one stored row per
\* dataset row, and none of the rows it held before.
SaveReplacesRows ==
    (last.op = "save" /\ last.result = "True" /\ last.old >= 0) =>
        \A name \in last.embedded :
            /\ tables[name].exists
            /\ Len(tables[name].rows) = Len(last.df)
            /\ tables[name].rows = FillNa(last.df)

\* a successful store of a non-empty dataset over a table that held rows
SaveReplacedNonEmpty ==
    /\ last.op = "save"
    /\ last.result = "True"
    /\ last.old > 0
    /\ last.df # <<>>

\* C9: a save_to_postgres that fails at any step returns False and commits
\* nothing: the store is as it was before the call.
SaveFailureReturnsFalse ==
    [][(last'.op = "save" /\ last'.failAt # "none") =>
           /\ last'.result = "False"
           /\ tables' = tables]_vars

----------------------------------------------------------------------------
(* Properties of the insight requestor.                                    *)

\* an empty payload, or one shorter than the shortest that line 93 lets through
ShortPayload(payload) ==
    payload.isstr /\ Len(Strip(payload.s)) < MinSampleLen

\* C6: for every request kind, a call with an empty or implausibly short
\* payload returns an error string and makes no call to the service.
ShortPayloadRejected ==
    (ai_last.kind \in RequestKinds /\ ShortPayload(ai_last.payload)) =>
        /\ ai_last.result = "error"
        /\ ~ai_last.called

----------------------------------------------------------------------------
(* Properties of the page controller.                                      *)

\* C10: on every exit path of an upload-and-analyze interaction, every
\* temporary file it created has been passed to cleanup and no longer exists
\* when the interaction ends; a file is still there only if its deletion
\* failed, and that failure was logged.
TempFilesCleaned ==
    ppc = "done" =>
        \A file \in hist.created :
            /\ file \in hist.passed
            /\ file \in fs => file \in hist.logged

----------------------------------------------------------------------------
(* Properties of the schema inferencer.                                    *)

\* C12: the storage type written for a column is one of NUMERIC, TIMESTAMP,
\* TEXT: int64 and float64 give NUMERIC, datetime64[ns] gives TIMESTAMP, every
\* other tag gives TEXT; the data columns follow id and created_at in source
\* order.
SchemaTypesAndOrder ==
    ct_pc \in {"True", "False"} =>
        /\ Len(ct_query) = 2 + Len(ct_args.columns)
        /\ ct_query[1].name = "id"
        /\ ct_query[2].name = "created_at"
        /\ \A i \in 1..Len(ct_args.columns) :
            /\ ct_query[i + 2].name = ct_args.columns[i]
            /\ ct_query[i + 2].type \in {"NUMERIC", "TIMESTAMP", "TEXT"}
            /\ ct_query[i + 2].type = "NUMERIC" <=>
                   ct_args.dtypes[i] \in {"int64", "float64"}
            /\ ct_query[i + 2].type = "TIMESTAMP" <=>
                   ct_args.dtypes[i] = "datetime64[ns]"

\* a statement built for a decimal column and then an unrecognised tag
SchemaBuiltForMixedTags ==
    /\ ct_pc = "True"
    /\ Len(ct_args.columns) >= 2
    /\ ct_args.dtypes[1] = "float64"
    /\ ct_args.dtypes[2] = "datetime64[ns, UTC]"
    /\ ct_args.columns[1] # ct_args.columns[2]

====
